---------------------------- MODULE Spec2Model ----------------------------
(* A model of the three Dioxus templates of skills/dioxus-fullstack:        *)
(*   route.rs            the Route table, its four views and their Links     *)
(*   server_function.rs  server_function and ServerComponent                 *)
(*   component.rs        Component and its props                             *)
(* Strings are sequences of one-character strings, so that formatting,      *)
(* joining and parsing are computed and not assumed.  A u32 is two 16-bit   *)
(* limbs [hi, lo] (value hi * 65536 + lo), which keeps the full 32-bit       *)
(* width within the model checker's integers.                                *)
EXTENDS Integers, Sequences, FiniteSets, TLC

VARIABLES
    path,        \* route.rs: the URL the router's history holds (segments)
    route,       \* route.rs: the Route the router resolved the URL to, or Unresolved
    via,         \* route.rs: how the current URL was set: "url" or "link"
    rtIn,        \* round trip: the Route value written as a path
    rtPath,      \* round trip: the path written
    rtOut,       \* round trip: the Route the path resolved to
    rtPc,        \* round trip: "idle" | "start" | "written" | "resolved"
    input,       \* server_function.rs:26 the input signal
    result,      \* server_function.rs:27 the resource's value
    tasks,       \* server_function.rs:27 the live runs of the resource future
    dirty,       \* the input changed since the resource future last started
    gen,         \* number of the latest run of the resource future
    resultGen,   \* the run that wrote the resource's value
    invoked,     \* params server_function was called with
    served,      \* <<param, return value>> of each run of server_function's body
    args,        \* component.rs: what the caller passed for the props
    props,       \* component.rs: the props Component was built with
    out,         \* component.rs: what Component rendered
    cPc          \* component.rs: "idle" | "built" | "rendered"

routerVars == <<path, route, via>>
rtVars == <<rtIn, rtPath, rtOut, rtPc>>
serverVars == <<input, result, tasks, dirty, gen, resultGen, invoked, served>>
componentVars == <<args, props, out, cPc>>
vars == <<routerVars, rtVars, serverVars, componentVars>>

----------------------------------------------------------------------------
(* Bounds of the model.                                                      *)

MaxPathLen == 3
MaxInputLen == 1
MaxEdits == 3
MaxChildren == 2

----------------------------------------------------------------------------
(* Strings and u32.                                                          *)

Limb == 65536

Digits == <<"0", "1", "2", "3", "4", "5", "6", "7", "8", "9">>

IsDigit(c) == \E i \in 1..10 : Digits[i] = c

DigitVal(c) == (CHOOSE i \in 1..10 : Digits[i] = c) - 1

U32(h, l) == [hi |-> h, lo |-> l]

\* u32's Display: the decimal digits, most significant first, no sign and
\* no leading zero.
RECURSIVE U32ToString(_)
U32ToString(n) ==
    LET t == (n.hi % 10) * Limb + n.lo
        q == U32(n.hi \div 10, t \div 10)
        d == <<Digits[(t % 10) + 1]>>
    IN IF q.hi = 0 /\ q.lo = 0 THEN d ELSE U32ToString(q) \o d

\* What u32::from_str returns for a string that is no u32.
ParseErr == [err |-> TRUE]

\* The digit loop of u32::from_str: acc * 10 + d with the overflow check.
\* The result is a u32 or ParseErr.
RECURSIVE ParseDigits(_, _)
ParseDigits(s, acc) ==
    IF acc = ParseErr THEN ParseErr
    ELSE IF s = <<>> THEN acc
    ELSE IF ~IsDigit(Head(s)) THEN ParseErr
    ELSE LET l == acc.lo * 10 + DigitVal(Head(s))
             h == acc.hi * 10 + (l \div Limb)
         IN IF h >= Limb THEN ParseErr
            ELSE ParseDigits(Tail(s), U32(h, l % Limb))

\* u32::from_str: an empty string is an error, one leading "+" is accepted,
\* "-" is not a digit, and a lone sign is an error.
ParseU32(s) ==
    IF s = <<>> THEN ParseErr
    ELSE IF Head(s) = "+"
         THEN IF Tail(s) = <<>> THEN ParseErr ELSE ParseDigits(Tail(s), U32(0, 0))
         ELSE ParseDigits(s, U32(0, 0))

\* [String]::join(sep)
RECURSIVE Join(_, _)
Join(segs, sep) ==
    IF segs = <<>> THEN <<>>
    ELSE IF Len(segs) = 1 THEN segs[1]
    ELSE segs[1] \o sep \o Join(Tail(segs), sep)

IsPrefix(p, s) == Len(p) <= Len(s) /\ SubSeq(s, 1, Len(p)) = p

\* All sequences over S of length at most n.
RECURSIVE SeqsUpTo(_, _)
SeqsUpTo(S, n) ==
    IF n = 0 THEN {<<>>}
    ELSE LET shorter == SeqsUpTo(S, n - 1)
         IN shorter \cup {Append(s, x) : s \in {t \in shorter : Len(t) = n - 1}, x \in S}

----------------------------------------------------------------------------
(* route.rs: the Route enum and its Routable derive.                         *)

SegBlog == <<"b", "l", "o", "g">>
SegAbout == <<"a", "b", "o", "u", "t">>

Home == [tag |-> "Home"]
About == [tag |-> "About"]
BlogPost(id) == [tag |-> "BlogPost", id |-> id]
NotFound(r) == [tag |-> "NotFound", route |-> r]

\* URL segments tried: the static names, numbers at and around the edges of
\* u32, signed and zero-padded numbers, and non-numbers.
Segments ==
    { SegBlog, SegAbout,
      <<"0">>, <<"1">>, <<"0", "1">>, <<"+", "1">>, <<"-", "1">>,
      <<"4", "2", "9", "4", "9", "6", "7", "2", "9", "5">>,
      <<"4", "2", "9", "4", "9", "6", "7", "2", "9", "6">>,
      <<"x">> }

Paths == SeqsUpTo(Segments, MaxPathLen)

\* BlogPost ids tried: 0, 1, 42, 65535, 65536 and u32::MAX.
Ids == { U32(0, 0), U32(0, 1), U32(0, 42), U32(0, Limb - 1), U32(1, 0),
         U32(Limb - 1, Limb - 1) }

Routes == {Home, About} \cup {BlogPost(i) : i \in Ids} \cup {NotFound(p) : p \in Paths}

\* Whether one #[route] pattern matches the segments, in the order the enum
\* declares them.
MatchHome(p) == p = <<>>
MatchAbout(p) == p = <<SegAbout>>
MatchBlogPost(p) == Len(p) = 2 /\ p[1] = SegBlog /\ ParseU32(p[2]) # ParseErr

\* Faulty variant: the catch-all loses the first segment.
FromStr_DropsFirst(p) ==
    IF MatchHome(p) THEN Home
    ELSE IF MatchAbout(p) THEN About
    ELSE IF MatchBlogPost(p) THEN BlogPost(ParseU32(p[2]))
    ELSE NotFound(Tail(p))

\* Faulty variant: the catch-all is tried before the other patterns.
FromStr_CatchAllFirst(p) == NotFound(p)

\* Routable::from_str: the first pattern that matches, the catch-all last.
FromStr(p) ==
    IF MatchHome(p) THEN Home
    ELSE IF MatchAbout(p) THEN About
    ELSE IF MatchBlogPost(p) THEN BlogPost(ParseU32(p[2]))
    ELSE NotFound(p)

\* Faulty variant: BlogPost is written without its id.
Display_BlogNoId(r) ==
    CASE r.tag = "Home" -> <<>>
      [] r.tag = "About" -> <<SegAbout>>
      [] r.tag = "BlogPost" -> <<SegBlog>>
      [] r.tag = "NotFound" -> r.route

\* Routable's Display: the route written as its path.
Display(r) ==
    CASE r.tag = "Home" -> <<>>
      [] r.tag = "About" -> <<SegAbout>>
      [] r.tag = "BlogPost" -> <<SegBlog, U32ToString(r.id)>>
      [] r.tag = "NotFound" -> r.route

\* Faulty variant: Home links to blog post 2.
HomeLinks_OtherPost == {About, BlogPost(U32(0, 2))}

\* The Link targets of each view.
HomeLinks == {About, BlogPost(U32(0, 1))}
AboutLinks == {Home}
BlogPostLinks == {Home}
NotFoundLinks == {Home}

Links(r) ==
    CASE r.tag = "Home" -> HomeLinks
      [] r.tag = "About" -> AboutLinks
      [] r.tag = "BlogPost" -> BlogPostLinks
      [] r.tag = "NotFound" -> NotFoundLinks

\* The paragraph of the NotFound view: "Route: {route.join("/")}".
NotFoundText(r) == <<"R", "o", "u", "t", "e", ":", " ">> \o Join(r, <<"/">>)

\* No view is mounted until the router has resolved the URL.
Unresolved == [tag |-> "Unresolved"]

\* The app is opened at any URL.
RouterInit ==
    /\ path \in Paths
    /\ route = Unresolved
    /\ via = "url"

\* Router::<Route> resolves the URL it was opened at through the route table.
ResolveUrl ==
    /\ route = Unresolved
    /\ route' = FromStr(path)
    /\ UNCHANGED <<path, via, rtVars, serverVars, componentVars>>

\* The user clicks a Link of the current view: the target is written to the
\* history as its path and the router resolves that path.
ClickLink ==
    /\ route # Unresolved
    /\ \E t \in Links(route) :
        /\ path' = Display(t)
        /\ route' = FromStr(Display(t))
        /\ via' = "link"
        /\ UNCHANGED <<rtVars, serverVars, componentVars>>

RouterNext == ResolveUrl \/ ClickLink

----------------------------------------------------------------------------
(* The route -> path -> route round trip, over every Route value.            *)

RtIdle ==
    /\ rtIn = Home
    /\ rtPath = <<>>
    /\ rtOut = Home
    /\ rtPc = "idle"

RtInit ==
    /\ rtIn \in Routes
    /\ rtPath = <<>>
    /\ rtOut = Home
    /\ rtPc = "start"

WriteRoute ==
    /\ rtPc = "start"
    /\ rtPath' = Display(rtIn)
    /\ rtPc' = "written"
    /\ UNCHANGED <<rtIn, rtOut, routerVars, serverVars, componentVars>>

ResolvePath ==
    /\ rtPc = "written"
    /\ rtOut' = FromStr(rtPath)
    /\ rtPc' = "resolved"
    /\ UNCHANGED <<rtIn, rtPath, routerVars, serverVars, componentVars>>

RtNext == WriteRoute \/ ResolvePath

----------------------------------------------------------------------------
(* server_function.rs: server_function and ServerComponent.                  *)

Empty == <<>>
ProcessedPrefix == <<"P", "r", "o", "c", "e", "s", "s", "e", "d", ":", " ">>
EnterInput == <<"E", "n", "t", "e", "r", " ", "i", "n", "p", "u", "t">>
IdPrefix == <<"I", "D", ":", " ">>
MessagePrefix == <<"M", "e", "s", "s", "a", "g", "e", ":", " ">>
ErrorPrefix == <<"E", "r", "r", "o", "r", ":", " ">>
LoadingText == <<"L", "o", "a", "d", "i", "n", "g", ".", ".", ".">>

\* What the user can type.
Inputs == SeqsUpTo({"a", "b"}, MaxInputLen)

\* The ServerFnError values the transport can produce, by their Display.
TransportErrors == { <<"r", "e", "q", "u", "e", "s", "t">>,
                     <<"d", "e", "c", "o", "d", "e">> }

ResponseData(id, message) == [id |-> id, message |-> message]
Ok(data) == [tag |-> "Ok", data |-> data]
Err(e) == [tag |-> "Err", e |-> e]
None == [tag |-> "None"]

\* Faulty variant: the body rejects a param.
server_function_Fallible(param) ==
    IF param = <<"b">> THEN Err(<<"b", "a", "d">>)
    ELSE Ok(ResponseData(U32(0, 1), ProcessedPrefix \o param))

\* The body of server_function, as it runs on the server.
server_function(param) == Ok(ResponseData(U32(0, 1), ProcessedPrefix \o param))

\* The else branch of the resource future: no call is made.
LocalResult == Ok(ResponseData(U32(0, 0), EnterInput))

\* Faulty variant: the success arm keeps the loading paragraph.
RenderResult_KeepsLoading(res) ==
    CASE res.tag = "Ok" -> << LoadingText,
                              IdPrefix \o U32ToString(res.data.id),
                              MessagePrefix \o res.data.message >>
      [] res.tag = "Err" -> << ErrorPrefix \o res.e >>
      [] res.tag = "None" -> << LoadingText >>

\* Faulty variant: the error arm renders the error as a message.
RenderResult_ErrAsMessage(res) ==
    CASE res.tag = "Ok" -> << IdPrefix \o U32ToString(res.data.id),
                              MessagePrefix \o res.data.message >>
      [] res.tag = "Err" -> << IdPrefix \o <<"0">>, MessagePrefix \o res.e >>
      [] res.tag = "None" -> << LoadingText >>

\* The match of the result area: the paragraphs it renders.
RenderResult(res) ==
    CASE res.tag = "Ok" -> << IdPrefix \o U32ToString(res.data.id),
                              MessagePrefix \o res.data.message >>
      [] res.tag = "Err" -> << ErrorPrefix \o res.e >>
      [] res.tag = "None" -> << LoadingText >>

\* What ServerComponent shows: the input's value and the result area.
Rendered == [value |-> input, area |-> RenderResult(result)]

Task(g, stage, param, resp) == [gen |-> g, stage |-> stage, param |-> param, resp |-> resp]

\* Faulty variant: a restart leaves the run in flight running.
CancelOld_KeepsRunning(live) == live

\* The runs left alive when the resource future is restarted: use_resource
\* cancels the run in flight before it starts the next.
CancelOld(live) == {}

\* A finished run writes the resource's value.
Resolve(t, value) ==
    /\ result' = value
    /\ resultGen' = t.gen
    /\ tasks' = tasks \ {t}

ServerInit ==
    /\ input = Empty
    /\ result = None
    /\ tasks = {Task(0, "spawned", Empty, None)}
    /\ dirty = FALSE
    /\ gen = 0
    /\ resultGen = 0
    /\ invoked = {}
    /\ served = {}

\* oninput: the input signal is set to the event's value.
EditInput ==
    \E s \in Inputs :
        /\ s # input
        /\ gen + (IF dirty THEN 1 ELSE 0) < MaxEdits
        /\ input' = s
        /\ dirty' = TRUE
        /\ UNCHANGED <<result, tasks, gen, resultGen, invoked, served>>
        /\ UNCHANGED <<routerVars, rtVars, componentVars>>

\* use_resource sees its dependency changed: the run in flight is cancelled
\* and the future is started again.  The value is kept until the new run
\* resolves.
Restart ==
    /\ dirty
    /\ dirty' = FALSE
    /\ gen' = gen + 1
    /\ tasks' = CancelOld(tasks) \cup {Task(gen + 1, "spawned", Empty, None)}
    /\ UNCHANGED <<input, result, resultGen, invoked, served>>
    /\ UNCHANGED <<routerVars, rtVars, componentVars>>

\* The first poll of the future with an empty input: it resolves at once.
PollEmpty ==
    \E t \in tasks :
        /\ t.stage = "spawned"
        /\ input = Empty
        /\ Resolve(t, LocalResult)
        /\ UNCHANGED <<input, dirty, gen, invoked, served>>
        /\ UNCHANGED <<routerVars, rtVars, componentVars>>

\* Faulty variant: the call is made whatever the input is.
PollCall_Unguarded ==
    \E t \in tasks :
        /\ t.stage = "spawned"
        /\ tasks' = (tasks \ {t}) \cup {Task(t.gen, "sent", input, None)}
        /\ invoked' = invoked \cup {input}
        /\ UNCHANGED <<input, result, dirty, gen, resultGen, served>>
        /\ UNCHANGED <<routerVars, rtVars, componentVars>>

\* The first poll with a non-empty input: server_function is called with a
\* clone of the input and the future awaits the call.
PollCall ==
    \E t \in tasks :
        /\ t.stage = "spawned"
        /\ input # Empty
        /\ tasks' = (tasks \ {t}) \cup {Task(t.gen, "sent", input, None)}
        /\ invoked' = invoked \cup {input}
        /\ UNCHANGED <<input, result, dirty, gen, resultGen, served>>
        /\ UNCHANGED <<routerVars, rtVars, componentVars>>

\* The request reaches the server, which runs the body of server_function.
ServerRun ==
    \E t \in tasks :
        /\ t.stage = "sent"
        /\ tasks' = (tasks \ {t}) \cup {Task(t.gen, "served", t.param, server_function(t.param))}
        /\ served' = served \cup {<<t.param, server_function(t.param)>>}
        /\ UNCHANGED <<input, result, dirty, gen, resultGen, invoked>>
        /\ UNCHANGED <<routerVars, rtVars, componentVars>>

\* The response reaches the client: the call returns what the body returned.
Deliver ==
    \E t \in tasks :
        /\ t.stage = "served"
        /\ Resolve(t, t.resp)
        /\ UNCHANGED <<input, dirty, gen, invoked, served>>
        /\ UNCHANGED <<routerVars, rtVars, componentVars>>

\* The request or the response is lost or unreadable: the call returns Err.
TransportFail ==
    \E t \in tasks, e \in TransportErrors :
        /\ t.stage \in {"sent", "served"}
        /\ Resolve(t, Err(e))
        /\ UNCHANGED <<input, dirty, gen, invoked, served>>
        /\ UNCHANGED <<routerVars, rtVars, componentVars>>

ServerNext == EditInput \/ Restart \/ PollEmpty \/ PollCall \/ ServerRun \/ Deliver \/ TransportFail

----------------------------------------------------------------------------
(* component.rs: ComponentProps and Component.                               *)

\* Elements a caller may nest in Component.
ChildNodes == { [tag |-> "p", text |-> <<"a">>],
                [tag |-> "p", text |-> <<"b">>],
                [tag |-> "span", text |-> <<>>] }

Titles == SeqsUpTo({"T", "i"}, 2)

NoTitle == [tag |-> "None"]
SomeTitle(t) == [tag |-> "Some", v |-> t]

\* #[props(default = "".to_string())]
DefaultTitle == <<>>

\* The props builder: a title that was not passed takes the default.
BuildProps(a) ==
    [ title |-> IF a.title.tag = "None" THEN DefaultTitle ELSE a.title.v,
      children |-> a.children ]

H2(text) == [tag |-> "h2", text |-> text]

\* Faulty variant: the children come before the heading.
Component_ChildrenFirst(p) ==
    [ tag |-> "div", class |-> "component",
      children |-> p.children \o <<H2(p.title)>> ]

\* Component: div.component { h2 { title }, children }
Component(p) ==
    [ tag |-> "div", class |-> "component",
      children |-> <<H2(p.title)>> \o p.children ]

NotRendered == [tag |-> "none"]

ComponentInit ==
    /\ args \in [ title : {NoTitle} \cup {SomeTitle(t) : t \in Titles},
                  children : SeqsUpTo(ChildNodes, MaxChildren) ]
    /\ props = BuildProps(args)
    /\ out = NotRendered
    /\ cPc = "built"

ComponentIdle ==
    /\ args = [title |-> NoTitle, children |-> <<>>]
    /\ props = BuildProps(args)
    /\ out = NotRendered
    /\ cPc = "idle"

RenderComponent ==
    /\ cPc = "built"
    /\ out' = Component(props)
    /\ cPc' = "rendered"
    /\ UNCHANGED <<args, props, routerVars, rtVars, serverVars>>

ComponentNext == RenderComponent

----------------------------------------------------------------------------
(* The specifications: the three templates do not interact, so each is      *)
(* checked with the other two at rest.                                       *)

RouterIdle ==
    /\ path = <<>>
    /\ route = Unresolved
    /\ via = "url"

\* ServerComponent, mounted.
Init == ServerInit /\ RouterIdle /\ RtIdle /\ ComponentIdle
Next == ServerNext
Spec == Init /\ [][Next]_vars

\* The router, opened at any URL.
RouterSpecInit == RouterInit /\ RtIdle /\ ServerInit /\ ComponentIdle
RouterSpec == RouterSpecInit /\ [][RouterNext]_vars

\* Any Route value written as a path and resolved.
RoundTripInit == RtInit /\ RouterIdle /\ ServerInit /\ ComponentIdle
RoundTripSpec == RoundTripInit /\ [][RtNext]_vars

\* Component, built from any props.
ComponentSpecInit == ComponentInit /\ RouterIdle /\ RtIdle /\ ServerInit
ComponentSpec == ComponentSpecInit /\ [][ComponentNext]_vars

----------------------------------------------------------------------------
(* Properties of ServerComponent and server_function (Spec).                 *)

Area == Rendered.area

ShowsLoading == \E i \in 1..Len(Area) : Area[i] = LoadingText
ShowsSuccess ==
    \E i \in 1..Len(Area) : IsPrefix(IdPrefix, Area[i]) \/ IsPrefix(MessagePrefix, Area[i])
ShowsError == \E i \in 1..Len(Area) : IsPrefix(ErrorPrefix, Area[i])

IdText(id) == IF id = U32(0, 0) THEN <<"0">> ELSE <<"1">>

\* C1: in every reachable state the result area shows exactly one of the
\* three views, and the resource value alone picks it: "Loading..." for
\* None, the "ID: .." / "Message: .." pair for Some(Ok(data)), "Error: .."
\* for Some(Err(e)).
C1_ExactlyOneView ==
    /\ result.tag \in {"None", "Ok", "Err"}
    /\ result.tag = "None" =>
           Area = <<LoadingText>> /\ ~ShowsSuccess /\ ~ShowsError
    /\ result.tag = "Ok" =>
           /\ Area = << IdPrefix \o IdText(result.data.id),
                        MessagePrefix \o result.data.message >>
           /\ ~ShowsLoading /\ ~ShowsError
    /\ result.tag = "Err" =>
           Area = <<ErrorPrefix \o result.e>> /\ ~ShowsLoading /\ ~ShowsSuccess

C1_Witness ==
    /\ result.tag = "Ok"
    /\ result.data.id = U32(0, 1)
    /\ resultGen > 1
    /\ \E t \in tasks : t.stage = "sent"

\* C3: whenever the resource holds Some(Err(e)) the area is the single
\* paragraph "Error: {e}", with neither the success pair nor "Loading...".
C3_ErrorShown ==
    result.tag = "Err" =>
        /\ Area = <<ErrorPrefix \o result.e>>
        /\ \A i \in 1..Len(Area) :
               /\ ~IsPrefix(IdPrefix, Area[i])
               /\ ~IsPrefix(MessagePrefix, Area[i])
               /\ Area[i] # LoadingText

C3_Witness ==
    /\ result.tag = "Err"
    /\ \E p \in invoked : p = input
    /\ tasks = {}

\* C4: every run of server_function's body returned
\* Ok(ResponseData { id: 1, message: "Processed: " ++ param }); no run
\* returned Err, so an Err the caller holds is one of the transport's.
C4_BodyAlwaysOk ==
    /\ \A p \in Inputs :
           server_function(p) =
               [tag |-> "Ok", data |-> [id |-> U32(0, 1), message |-> ProcessedPrefix \o p]]
    /\ \A c \in served :
           /\ c[2].tag = "Ok"
           /\ c[2].data.id = U32(0, 1)
           /\ c[2].data.message = ProcessedPrefix \o c[1]
    /\ result.tag = "Err" =>
           /\ result.e \in TransportErrors
           /\ \A c \in served : c[2] # result

C4_Witness ==
    /\ Cardinality(served) >= 2
    /\ result.tag = "Err"

\* A run of the resource future is polled for the first time in this step.
FirstPoll ==
    /\ gen' = gen
    /\ \E t \in tasks : t.stage = "spawned" /\ t \notin tasks'

\* C6, as a state predicate: server_function is never called with an empty
\* param; a shown id 0 is the local "Enter input" value, which no run of
\* the body returned; a shown id 1 is what a run of the body returned for a
\* non-empty param.
C6_Provenance ==
    /\ Empty \notin invoked
    /\ \A c \in served : c[1] # Empty /\ c[1] \in invoked
    /\ result.tag = "Ok" =>
           /\ result.data.id \in {U32(0, 0), U32(0, 1)}
           /\ result.data.id = U32(0, 0) =>
                  /\ result.data.message = EnterInput
                  /\ \A c \in served : c[2] # result
           /\ result.data.id = U32(0, 1) =>
                  \E c \in served : c[2] = result /\ c[1] # Empty

Quiescent == tasks = {} /\ ~dirty

SuccessArea(id, message) == << IdPrefix \o id, MessagePrefix \o message >>

C8_FinalOutcome ==
    Quiescent =>
        /\ resultGen = gen
        /\ IF input = Empty
           THEN Area = SuccessArea(<<"0">>, EnterInput)
           ELSE \/ Area = SuccessArea(<<"1">>, ProcessedPrefix \o input)
                \/ \E e \in TransportErrors : Area = <<ErrorPrefix \o e>>

----------------------------------------------------------------------------
(* Properties of the route table (RouterSpec, RoundTripSpec).                *)

\* The segments of Segments that are u32 numerals, with their values.
Numerals ==
    { <<"0">>, <<"1">>, <<"0", "1">>, <<"+", "1">>,
      <<"4", "2", "9", "4", "9", "6", "7", "2", "9", "5">> }

ExpectedId(seg) ==
    CASE seg = <<"0">> -> U32(0, 0)
      [] seg \in { <<"1">>, <<"0", "1">>, <<"+", "1">> } -> U32(0, 1)
      [] OTHER -> U32(65535, 65535)

IsBlogPath(p) == Len(p) = 2 /\ p[1] = SegBlog /\ p[2] \in Numerals

ResolvedUrl == route # Unresolved /\ via = "url"

\* C2: every path resolves to exactly one of Home, About, BlogPost,
\* NotFound, and a path that is none of "/", "/about", "/blog/<u32>"
\* resolves to NotFound carrying the path's segments in order.
C2_TotalWithCatchAll ==
    ResolvedUrl =>
        /\ route.tag \in {"Home", "About", "BlogPost", "NotFound"}
        /\ Cardinality({ r \in {Home, About, NotFound(path)}
                               \cup {BlogPost(i) : i \in Ids} : r = route }) = 1
        /\ (path # <<>> /\ path # <<SegAbout>> /\ ~IsBlogPath(path)) =>
               /\ route = NotFound(path)
               /\ NotFoundText(route.route) =
                      <<"R", "o", "u", "t", "e", ":", " ">> \o Join(path, <<"/">>)

C2_Witness ==
    /\ ResolvedUrl
    /\ Len(path) = MaxPathLen
    /\ path[1] = SegAbout
    /\ route = NotFound(path)

\* C7: "/" resolves to Home and "/about" to About although the catch-all
\* matches them too; "/blog/<s>" resolves to BlogPost { id } only when <s>
\* is one segment that parses as a u32, and to NotFound with the segments
\* "blog", <s>, ... when <s> is not a number, is out of range, is missing
\* or is followed by further segments.
C7_Precedence ==
    ResolvedUrl =>
        /\ path = <<>> => route = Home
        /\ path = <<SegAbout>> => route = About
        /\ (Len(path) >= 1 /\ path[1] = SegBlog) =>
               IF Len(path) = 2 /\ path[2] \in Numerals
               THEN route = BlogPost(ExpectedId(path[2]))
               ELSE route = NotFound(path)
        /\ route.tag = "BlogPost" => IsBlogPath(path)

C7_Witness ==
    /\ ResolvedUrl
    /\ path = <<SegBlog, <<"4", "2", "9", "4", "9", "6", "7", "2", "9", "6">> >>
    /\ route = NotFound(path)

\* C9: every view but Home links to Home, Home links only to About and
\* BlogPost { id: 1 }, no Link targets NotFound, and after a Link click the
\* current route is one of Home, About, BlogPost { id: 1 }.
C9_LinkGraph ==
    route # Unresolved =>
        /\ route # Home => Home \in Links(route)
        /\ route = Home => Links(route) = {About, BlogPost(U32(0, 1))}
        /\ \A t \in Links(route) : t.tag # "NotFound"
        /\ via = "link" => route \in {Home, About, BlogPost(U32(0, 1))}

C9_Witness ==
    /\ via = "link"
    /\ route = BlogPost(U32(0, 1))

\* C10: Home, About and every BlogPost { id } written as a path resolve
\* back to themselves; NotFound { route: [] }, NotFound { route: ["about"] }
\* and NotFound { route: ["blog", "<u32>"] } do not: they resolve to Home,
\* About and BlogPost.
C10_RoundTrip ==
    rtPc = "resolved" =>
        /\ rtIn.tag \in {"Home", "About", "BlogPost"} => rtOut = rtIn
        /\ rtIn = NotFound(<<>>) => rtOut = Home /\ rtOut # rtIn
        /\ rtIn = NotFound(<<SegAbout>>) => rtOut = About /\ rtOut # rtIn
        /\ (rtIn.tag = "NotFound" /\ IsBlogPath(rtIn.route)) =>
               rtOut = BlogPost(ExpectedId(rtIn.route[2])) /\ rtOut # rtIn

C10_Witness ==
    /\ rtPc = "resolved"
    /\ rtIn = BlogPost(U32(Limb - 1, Limb - 1))
    /\ rtPath = <<SegBlog, <<"4", "2", "9", "4", "9", "6", "7", "2", "9", "5">> >>
    /\ rtOut = rtIn

----------------------------------------------------------------------------
(* Properties of Component (ComponentSpec).                                  *)

\* C5: Component renders one div of class "component" holding an h2 with
\* the title and then the children, in that order; a title that was not
\* passed is the empty string, and the children are rendered all the same.
C5_ComponentLayout ==
    cPc = "rendered" =>
        /\ out.tag = "div"
        /\ out.class = "component"
        /\ Len(out.children) = 1 + Len(args.children)
        /\ out.children[1].tag = "h2"
        /\ out.children[1].text =
               (IF args.title.tag = "None" THEN <<>> ELSE args.title.v)
        /\ \A i \in 1..Len(args.children) : out.children[i + 1] = args.children[i]

C5_Witness ==
    /\ cPc = "rendered"
    /\ args.title = NoTitle
    /\ Len(args.children) = MaxChildren
    /\ out.children[1] = [tag |-> "h2", text |-> <<>>]

============================================================================
